---- MODULE Spec2Model ----
(***************************************************************************)
(* Engine selection and fallback orchestration of exomind-model:           *)
(*   asr/selector.py  EngineSelector (scenario detection, scoring,         *)
(*                    ranking, confidence, alternates)                     *)
(*   asr/factory.py   ASRClientFactory (registry, create,                  *)
(*                    create_with_fallback, create_smart)                  *)
(*   engine/__init__.py  EngineManager (register, unregister, default,     *)
(*                    switch)                                              *)
(*   voice_ime.py     Recorder and VoiceIME (smart-mode construction,      *)
(*                    hot-key loop)                                        *)
(*                                                                         *)
(* Scores are Python floats in the source.  The model keeps them exact:    *)
(* component scores are integers in hundredths, weights in tenths, totals  *)
(* in thousandths, confidence in units of 1/100000.  On every input of the *)
(* model the order of the float totals equals the order of the exact       *)
(* totals (in particular the 68.0 = 68.0 tie of nano-2512 and              *)
(* paraformer-zh under MEETING with the balanced override is a float tie). *)
(***************************************************************************)
EXTENDS Integers, Sequences, FiniteSets, TLC

\* ---------------------------------------------------------------- bounds
MaxSpeakers == 2
MaxCandidates == 2
MaxChunks == 2

\* ------------------------------------------------------------ data model
Scenarios == {"REALTIME", "TRANSCRIPTION", "MEETING", "MULTILINGUAL", "COMMAND", "GENERAL"}

Languages == {"zh", "en", "multi", "auto"}

ContextPriorities == {"latency", "accuracy", "balanced"}

\* the optional priority argument of select: None, 'auto', the three known
\* names and one name the code does not know
PriorityArgs == {"None", "auto", "latency", "accuracy", "balanced", "fast"}

Durations == {0, 4, 5, 60, 61}

AudioContext ==
    [duration_seconds : Durations,
     estimated_speakers : 1..MaxSpeakers,
     language_hint : Languages,
     is_streaming : BOOLEAN,
     priority : ContextPriorities]

KnownEngines == {"nano-2512", "paraformer-zh", "sensevoice", "moss"}

\* dict order of ENGINE_CAPABILITIES.keys()
CapabilityKeys == <<"nano-2512", "paraformer-zh", "sensevoice", "moss">>

CandidateIds == KnownEngines \cup {"unknown-engine"}

ENGINE_CAPABILITIES ==
    [e \in KnownEngines |->
        CASE e = "nano-2512" ->
               [latency |-> 95, accuracy |-> 80, resource |-> 70, streaming |-> TRUE,
                diarization |-> FALSE, languages |-> 31, model_names |-> {"nano-2512", "nano-mlt"}]
          [] e = "paraformer-zh" ->
               [latency |-> 50, accuracy |-> 90, resource |-> 60, streaming |-> FALSE,
                diarization |-> TRUE, languages |-> 1, model_names |-> {"paraformer-zh"}]
          [] e = "sensevoice" ->
               [latency |-> 40, accuracy |-> 95, resource |-> 50, streaming |-> FALSE,
                diarization |-> FALSE, languages |-> 5, model_names |-> {"sensevoice"}]
          [] e = "moss" ->
               [latency |-> 30, accuracy |-> 88, resource |-> 100, streaming |-> FALSE,
                diarization |-> TRUE, languages |-> 1, model_names |-> {"moss-transcribe-diarize"}]]

\* weights in tenths
SCENARIO_WEIGHTS ==
    [s \in Scenarios |->
        CASE s = "REALTIME" -> [latency |-> 5, accuracy |-> 3, resource |-> 2]
          [] s = "TRANSCRIPTION" -> [latency |-> 2, accuracy |-> 6, resource |-> 2]
          [] s = "COMMAND" -> [latency |-> 6, accuracy |-> 3, resource |-> 1]
          [] OTHER -> [latency |-> 3, accuracy |-> 4, resource |-> 3]]

FALLBACK_CHAIN ==
    [e \in KnownEngines |->
        CASE e = "nano-2512" -> <<"paraformer-zh", "moss">>
          [] e = "paraformer-zh" -> <<"sensevoice", "moss">>
          [] e = "sensevoice" -> <<"paraformer-zh", "moss">>
          [] e = "moss" -> <<"paraformer-zh">>]

\* ascending order of the engine identifiers as Python compares strings
IdOrder == <<"funasr", "moss", "nano-2512", "nano-mlt", "paraformer-zh", "sensevoice", "unknown-engine">>

IdRank(e) == CHOOSE i \in 1..Len(IdOrder) : IdOrder[i] = e

IdLess(a, b) == IdRank(a) < IdRank(b)

\* --------------------------------------------------------- EngineSelector
\* EngineSelector.__init__: None means every known engine, otherwise the
\* given list filtered to the ids that have a capability entry
\* __init__ that keeps the given list as it is
SelectorInit_unfiltered(isNone, ids) ==
    IF isNone THEN CapabilityKeys ELSE ids

SelectorInit(isNone, ids) ==
    IF isNone THEN CapabilityKeys
    ELSE SelectSeq(ids, LAMBDA e : e \in KnownEngines)

\* detect_scenario with the speaker rule tested before the short-command rule
detect_scenario_speakers_first(context) ==
    IF context.is_streaming THEN "REALTIME"
    ELSE IF context.language_hint \in {"en", "multi"} THEN "MULTILINGUAL"
    ELSE IF context.estimated_speakers > 1 THEN "MEETING"
    ELSE IF context.duration_seconds < 5 /\ context.priority = "latency" THEN "COMMAND"
    ELSE IF context.duration_seconds > 60 /\ context.priority = "accuracy" THEN "TRANSCRIPTION"
    ELSE "GENERAL"

detect_scenario(context) ==
    IF context.is_streaming THEN "REALTIME"
    ELSE IF context.language_hint \in {"en", "multi"} THEN "MULTILINGUAL"
    ELSE IF context.duration_seconds < 5 /\ context.priority = "latency" THEN "COMMAND"
    ELSE IF context.estimated_speakers > 1 THEN "MEETING"
    ELSE IF context.duration_seconds > 60 /\ context.priority = "accuracy" THEN "TRANSCRIPTION"
    ELSE "GENERAL"

get_priority_weights(priority) ==
    IF priority = "latency" THEN [latency |-> 6, accuracy |-> 3, resource |-> 1]
    ELSE IF priority = "accuracy" THEN [latency |-> 2, accuracy |-> 7, resource |-> 1]
    ELSE [latency |-> 4, accuracy |-> 4, resource |-> 2]

\* capabilities = ENGINE_CAPABILITIES.get(engine, {}) with the defaults of
\* the .get calls of _score_engine
CapabilityOf(engine) ==
    IF engine \in KnownEngines THEN ENGINE_CAPABILITIES[engine]
    ELSE [latency |-> 0, accuracy |-> 0, resource |-> 0, streaming |-> FALSE,
          diarization |-> FALSE, languages |-> 0, model_names |-> {}]

\* the body of _score_engine on the looked-up capabilities; component scores
\* in hundredths, total in thousandths
ScoreWith(cap, known, engine, scenario, context, weights) ==
    LET lat0 == cap.latency * 100
        acc0 == cap.accuracy * 100
        res0 == cap.resource * 100
        lat1 == IF scenario = "REALTIME" /\ ~cap.streaming THEN (lat0 * 1) \div 10 ELSE lat0
        r1 == IF scenario = "REALTIME"
              THEN (IF ~cap.streaming THEN <<"no-streaming">> ELSE <<"streaming">>)
              ELSE << >>
        acc1 == IF scenario = "MEETING" /\ ~cap.diarization THEN (acc0 * 5) \div 10 ELSE acc0
        r2 == IF scenario = "MEETING"
              THEN (IF ~cap.diarization THEN <<"no-diarization">> ELSE <<"diarization">>)
              ELSE << >>
        lang_count == IF known THEN cap.languages ELSE 1
        acc2 == IF scenario = "MULTILINGUAL" /\ lang_count < 5 THEN (acc1 * 7) \div 10 ELSE acc1
        r3 == IF scenario = "MULTILINGUAL"
              THEN (IF lang_count < 5 THEN <<"few-languages">> ELSE <<"many-languages">>)
              ELSE << >>
        r4 == IF scenario = "TRANSCRIPTION" /\ cap.accuracy >= 90 THEN <<"high-accuracy">> ELSE << >>
        r5 == IF scenario = "COMMAND" /\ cap.latency >= 80 THEN <<"low-latency">> ELSE << >>
        zh == context.language_hint = "zh" /\ cap.languages >= 1
        acc3 == IF zh THEN (acc2 * 11) \div 10 ELSE acc2
        r6 == IF zh THEN <<"zh-optimized">> ELSE << >>
        en == context.language_hint = "en"
                 /\ ("en" \in cap.model_names \/ "paraformer-en" \in cap.model_names)
        acc4 == IF en THEN (acc3 * 11) \div 10 ELSE acc3
        r7 == IF en THEN <<"en-support">> ELSE << >>
    IN  [engine_name |-> engine,
         total_score |-> lat1 * weights.latency + acc4 * weights.accuracy + res0 * weights.resource,
         latency_score |-> lat1,
         accuracy_score |-> acc4,
         resource_score |-> res0,
         reasons |-> r1 \o r2 \o r3 \o r4 \o r5 \o r6 \o r7]

\* _score_engine with the streaming test inverted ("if streaming" for "if not")
score_engine_streaming_inverted(engine, scenario, context, weights) ==
    LET cap == CapabilityOf(engine)
    IN  ScoreWith([cap EXCEPT !.streaming = ~cap.streaming], engine \in KnownEngines,
                  engine, scenario, context, weights)

\* _score_engine with the latency and accuracy weights exchanged in the total
score_engine_weights_exchanged(engine, scenario, context, weights) ==
    ScoreWith(CapabilityOf(engine), engine \in KnownEngines, engine, scenario, context,
              [weights EXCEPT !.latency = weights.accuracy, !.accuracy = weights.latency])

\* _score_engine that never applies the language-count penalty
score_engine_no_language_penalty(engine, scenario, context, weights) ==
    ScoreWith([CapabilityOf(engine) EXCEPT !.languages = 31], engine \in KnownEngines,
              engine, scenario, context, weights)

\* _score_engine that never applies the diarization penalty
score_engine_no_diarization_penalty(engine, scenario, context, weights) ==
    ScoreWith([CapabilityOf(engine) EXCEPT !.diarization = TRUE], engine \in KnownEngines,
              engine, scenario, context, weights)

score_engine(engine, scenario, context, weights) ==
    ScoreWith(CapabilityOf(engine), engine \in KnownEngines, engine, scenario, context, weights)

\* scores.sort(key=total_score, reverse=True): Python's sort is stable, also
\* with reverse=True, so entries of equal total keep their list order
RECURSIVE InsertDesc(_, _)
InsertDesc(sorted, x) ==
    IF sorted = << >> THEN <<x>>
    ELSE IF Head(sorted).total_score >= x.total_score
         THEN <<Head(sorted)>> \o InsertDesc(Tail(sorted), x)
         ELSE <<x>> \o sorted

RECURSIVE SortDesc(_)
SortDesc(scores) ==
    IF scores = << >> THEN << >>
    ELSE InsertDesc(SortDesc(SubSeq(scores, 1, Len(scores) - 1)), scores[Len(scores)])

\* weight resolution that ignores the priority argument
ResolveWeights_scenario_only(scenario, priority) ==
    SCENARIO_WEIGHTS[scenario]

\* the weights select uses: "if priority and priority != 'auto'"
ResolveWeights(scenario, priority) ==
    IF priority \notin {"None", "auto"} THEN get_priority_weights(priority)
    ELSE SCENARIO_WEIGHTS[scenario]

\* select that takes context.priority for a missing priority argument
RankedScores_priority_from_context(available, context, priority) ==
    LET scenario == detect_scenario(context)
        weights == ResolveWeights(scenario, IF priority = "None" THEN context.priority ELSE priority)
    IN  SortDesc([i \in 1..Len(available) |-> score_engine(available[i], scenario, context, weights)])

\* the scored and sorted list of select
RankedScores(available, context, priority) ==
    LET scenario == detect_scenario(context)
        weights == ResolveWeights(scenario, priority)
    IN  SortDesc([i \in 1..Len(available) |-> score_engine(available[i], scenario, context, weights)])

\* min(1.0, max(0.0, x)) in units of 1/100000
Clamp(x) == IF x < 0 THEN 0 ELSE IF x > 100000 THEN 100000 ELSE x

EmptyScore ==
    [engine_name |-> "none", total_score |-> 0, latency_score |-> 0, accuracy_score |-> 0,
     resource_score |-> 0, reasons |-> << >>]

\* the last entry of the chain instead of the first
FallbackOf_last(engine) ==
    IF engine \in DOMAIN FALLBACK_CHAIN
    THEN FALLBACK_CHAIN[engine][Len(FALLBACK_CHAIN[engine])]
    ELSE "moss"

FallbackOf(engine) ==
    IF engine \in DOMAIN FALLBACK_CHAIN THEN FALLBACK_CHAIN[engine][1] ELSE "moss"

\* confidence that forgets the single-candidate branch
Confidence_no_single_case(scores) ==
    IF Len(scores) > 1 THEN Clamp(scores[1].total_score - scores[2].total_score) ELSE 0

\* confidence of select, in units of 1/100000
Confidence(scores) ==
    IF Len(scores) > 1 THEN Clamp(scores[1].total_score - scores[2].total_score) ELSE 100000

\* select whose degraded result reports the detected scenario
select_degraded_detected(available, context, priority) ==
    LET scores == RankedScores(available, context, priority)
    IN  IF scores = << >>
        THEN [recommended_engine |-> "paraformer-zh",
              fallback_engine |-> "moss",
              scenario |-> detect_scenario(context),
              confidence |-> 0,
              score |-> EmptyScore,
              alternatives |-> << >>]
        ELSE [recommended_engine |-> scores[1].engine_name,
              fallback_engine |-> FallbackOf(scores[1].engine_name),
              scenario |-> detect_scenario(context),
              confidence |-> Confidence(scores),
              score |-> scores[1],
              alternatives |-> [i \in 1..(IF Len(scores) > 4 THEN 3 ELSE Len(scores) - 1) |->
                                   scores[i + 1].engine_name]]

\* select with the alternates slice scores[1:3]
select_two_alternates(available, context, priority) ==
    LET scores == RankedScores(available, context, priority)
    IN  IF scores = << >>
        THEN [recommended_engine |-> "paraformer-zh",
              fallback_engine |-> "moss",
              scenario |-> "GENERAL",
              confidence |-> 0,
              score |-> EmptyScore,
              alternatives |-> << >>]
        ELSE [recommended_engine |-> scores[1].engine_name,
              fallback_engine |-> FallbackOf(scores[1].engine_name),
              scenario |-> detect_scenario(context),
              confidence |-> Confidence(scores),
              score |-> scores[1],
              alternatives |-> [i \in 1..(IF Len(scores) > 3 THEN 2 ELSE Len(scores) - 1) |->
                                   scores[i + 1].engine_name]]

select(available, context, priority) ==
    LET scores == RankedScores(available, context, priority)
    IN  IF scores = << >>
        THEN [recommended_engine |-> "paraformer-zh",
              fallback_engine |-> "moss",
              scenario |-> "GENERAL",
              confidence |-> 0,
              score |-> EmptyScore,
              alternatives |-> << >>]
        ELSE [recommended_engine |-> scores[1].engine_name,
              fallback_engine |-> FallbackOf(scores[1].engine_name),
              scenario |-> detect_scenario(context),
              confidence |-> Confidence(scores),
              score |-> scores[1],
              alternatives |-> [i \in 1..(IF Len(scores) > 4 THEN 3 ELSE Len(scores) - 1) |->
                                   scores[i + 1].engine_name]]

\* ------------------------------------------------------------------ state
VARIABLES
    available_engines,   \* EngineSelector._available_engines
    context,             \* the AudioContext of the last call
    priority,            \* the priority argument of the last select
    scenario,            \* what detect_scenario returned in the last call
    result,              \* the SelectionResult of the last select
    given,               \* the available_engines argument the selector was built with
    engine_score,        \* the EngineScore of the last direct _score_engine call
    weights,             \* the weights argument of that call
    engines,             \* ASRClientFactory._engines, in dict order
    pc,                  \* position of the running create_with_fallback
    primary_engine,      \* its primary_engine argument
    fallback_engine,     \* its fallback_engine argument
    api_key,             \* kwargs.get('api_key', '')
    env,                 \* what constructing the primary / the fallback does in this run
    calls,               \* the engine names handed to cls.create, in order
    client,              \* the returned ASRClient
    error,               \* the exception that left create_with_fallback
    configs,             \* EngineManager._configs: type -> name -> EngineConfig
    mgr_call,            \* the last EngineManager call, its outcome and the registry before it
    state,               \* VoiceIME.state ('none' before the VoiceIME exists)
    is_recording,        \* Recorder.is_recording
    audio_data,          \* len(Recorder.audio_data)
    stream,              \* Recorder.stream
    selection_result,    \* VoiceIME.selection_result
    ime_args,            \* the smart_mode, scenario and priority arguments of VoiceIME
    ime_pc,              \* position of the running on_hotkey handler
    last_press,          \* what the last on_hotkey call met and did
    kwargs,              \* the arguments, **kwargs included, of the last create_with_fallback call
    passed,              \* the constructor calls it made, with the kwargs of each
    requests,            \* the select calls in progress, one per caller
    scores               \* the scores list of each call in progress

selectorVars == <<available_engines, context, priority, scenario, result, given, engine_score, weights>>

factoryVars == <<engines, pc, primary_engine, fallback_engine, api_key, env, calls, client, error>>

managerVars == <<configs, mgr_call>>

imeVars == <<state, is_recording, audio_data, stream, selection_result, ime_args, ime_pc, last_press>>

kwargsVars == <<kwargs, passed>>

concurrentVars == <<requests, scores>>

extraVars == <<managerVars, imeVars, kwargsVars, concurrentVars>>

vars == <<selectorVars, factoryVars, extraVars>>

NoContext == [none |-> TRUE]

NoResult == [none |-> TRUE]

\* candidate lists a caller may hand to the selector
RECURSIVE SeqsUpTo(_, _)
SeqsUpTo(S, n) ==
    IF n = 0 THEN {<< >>}
    ELSE LET shorter == SeqsUpTo(S, n - 1)
         IN  shorter \cup {Append(s, x) : s \in {t \in shorter : Len(t) = n - 1}, x \in S}

\* lists longer than four: the known engines and one of them again
LongCandidateLists == {CapabilityKeys \o <<e>> : e \in KnownEngines}

\* the four known engines in the opposite order
ReversedKeys == <<"moss", "sensevoice", "paraformer-zh", "nano-2512">>

CandidateLists == SeqsUpTo(CandidateIds, MaxCandidates) \cup LongCandidateLists \cup {ReversedKeys}

NoScore == [none |-> TRUE]

NoWeights == [none |-> TRUE]

\* the weight triples the selector holds: the scenario table and the overrides
WeightTriples ==
    {SCENARIO_WEIGHTS[s] : s \in Scenarios} \cup {get_priority_weights(p) : p \in ContextPriorities}

\* contexts the dataclass accepts although the duration is negative
MalformedContexts ==
    [duration_seconds : {-1},
     estimated_speakers : 1..MaxSpeakers,
     language_hint : Languages,
     is_streaming : BOOLEAN,
     priority : ContextPriorities]

\* the constructor argument: None, or a list of ids
GivenNone == [none |-> TRUE, ids |-> << >>]

GivenList(ids) == [none |-> FALSE, ids |-> ids]

SelectorInitState ==
    /\ available_engines = CapabilityKeys
    /\ context = NoContext
    /\ priority = "None"
    /\ scenario = "none"
    /\ result = NoResult
    /\ given = GivenNone
    /\ engine_score = NoScore
    /\ weights = NoWeights

\* ------------------------------------------------------- ASRClientFactory
\* the client classes: the three of the repository and any other ASRClient
\* subclass handed to register
Classes == {"MossClient", "FunASRClient", "FunASRNanoClient", "CustomClient"}

BuiltinEngines ==
    <<[name |-> "moss", cls |-> "MossClient"],
      [name |-> "funasr", cls |-> "FunASRClient"],
      [name |-> "nano-2512", cls |-> "FunASRNanoClient"],
      [name |-> "nano-mlt", cls |-> "FunASRNanoClient"]>>

\* engine names callers pass to the factory
EngineArgs == {"moss", "funasr", "nano-2512", "nano-mlt", "paraformer-zh", "sensevoice"}

\* names register is called with
RegisterNames == {"moss", "funasr", "paraformer-zh", "sensevoice"}

ApiKeys == {"", "key"}

NoClient == [none |-> TRUE]

NoError == [none |-> TRUE]

NoEnv == [none |-> TRUE]

FactoryInitState ==
    /\ engines = BuiltinEngines
    /\ pc = "idle"
    /\ primary_engine = "none"
    /\ fallback_engine = "none"
    /\ api_key = ""
    /\ env = NoEnv
    /\ calls = << >>
    /\ client = NoClient
    /\ error = NoError

Registered(name) == \E i \in DOMAIN engines : engines[i].name = name

ClassOf(name) == engines[CHOOSE i \in DOMAIN engines : engines[i].name = name].cls

get_available_engines == [i \in DOMAIN engines |-> engines[i].name]

\* what cls.create(name, ...) can do: an unregistered name raises ValueError;
\* MossClient never raises and is available iff it has an api key; the FunASR
\* clients raise when the model does not load and are available otherwise;
\* any other ASRClient subclass may raise or report either availability
ConstructOutcomes(name, key) ==
    IF ~Registered(name) THEN {"raise"}
    ELSE IF ClassOf(name) = "MossClient" THEN {IF key # "" THEN "ok" ELSE "unavailable"}
    ELSE IF ClassOf(name) \in {"FunASRClient", "FunASRNanoClient"} THEN {"raise", "ok"}
    ELSE {"raise", "unavailable", "ok"}

\* cls._engines[name] = client_class: add at the end or replace in place
register(name, cls) ==
    IF Registered(name)
    THEN [i \in DOMAIN engines |-> IF engines[i].name = name THEN [name |-> name, cls |-> cls] ELSE engines[i]]
    ELSE Append(engines, [name |-> name, cls |-> cls])

\* where create_with_fallback goes once the primary was not returned
AfterPrimaryFailure(primary, fallback, key) ==
    IF primary \in {"funasr", "nano-2512", "nano-mlt"}
    THEN IF fallback = "moss"
         THEN (IF key = "" THEN "FAILED" ELSE "TRYING_FALLBACK")
         ELSE IF fallback = "funasr" THEN "TRYING_FALLBACK"
         ELSE "FAILED"
    ELSE "FAILED"

\* the RuntimeError raised when no fallback is constructed
NoFallbackError(primary, fallback, key) ==
    IF primary \in {"funasr", "nano-2512", "nano-mlt"} /\ fallback = "moss" /\ key = ""
    THEN [type |-> "RuntimeError", message |-> "missing-api-key", causes |-> {}]
    ELSE [type |-> "RuntimeError", message |-> "no-fallback", causes |-> {}]

FactoryIdle == pc = "idle"

\* ASRClientFactory.register(name, CustomClient)
Register(name) ==
    /\ FactoryIdle
    /\ engines' = register(name, "CustomClient")
    /\ UNCHANGED <<pc, primary_engine, fallback_engine, api_key, env, calls, client, error>>
    /\ UNCHANGED selectorVars
    /\ UNCHANGED extraVars

\* entry of create_with_fallback(primary, fallback, api_key=key); o1 and o2 are
\* what the two constructions do in this run
Enter(primary, fallback, key, o1, o2) ==
    /\ o1 \in ConstructOutcomes(primary, key)
    /\ o2 \in ConstructOutcomes(fallback, key)
    /\ pc' = "TRYING_PRIMARY"
    /\ primary_engine' = primary
    /\ fallback_engine' = fallback
    /\ api_key' = key
    /\ env' = [primary |-> o1, fallback |-> o2]
    /\ calls' = << >>
    /\ client' = NoClient
    /\ error' = NoError
    /\ UNCHANGED engines

\* ASRClientFactory.create_with_fallback(primary, fallback, api_key=key)
CreateWithFallback(primary, fallback, key, o1, o2) ==
    /\ FactoryIdle
    /\ Enter(primary, fallback, key, o1, o2)
    /\ UNCHANGED selectorVars
    /\ UNCHANGED extraVars

\* ASRClientFactory.create_smart(ctx, api_key=key): select, then resolve
CreateSmart(ctx, key, o1, o2) ==
    /\ FactoryIdle
    /\ LET selected == select(SelectorInit(FALSE, get_available_engines), ctx, "None")
       IN  /\ available_engines' = SelectorInit(FALSE, get_available_engines)
           /\ given' = GivenList(get_available_engines)
           /\ result' = selected
           /\ Enter(selected.recommended_engine, selected.fallback_engine, key, o1, o2)
    /\ UNCHANGED <<context, priority, scenario, engine_score, weights>>
    /\ UNCHANGED extraVars

\* the try block: cls.create(primary_engine, ...) and the is_available test
TryPrimary ==
    /\ pc = "TRYING_PRIMARY"
    /\ calls' = Append(calls, primary_engine)
    /\ IF env.primary = "ok"
       THEN /\ pc' = "SUCCEEDED"
            /\ client' = [engine |-> primary_engine, role |-> "primary", available |-> TRUE]
            /\ error' = NoError
       ELSE /\ pc' = AfterPrimaryFailure(primary_engine, fallback_engine, api_key)
            /\ client' = NoClient
            /\ error' = IF pc' = "FAILED"
                        THEN NoFallbackError(primary_engine, fallback_engine, api_key)
                        ELSE NoError
    /\ UNCHANGED <<engines, primary_engine, fallback_engine, api_key, env>>
    /\ UNCHANGED selectorVars
    /\ UNCHANGED extraVars

\* return cls.create('moss' | 'funasr', **fallback_kwargs)
TryFallback ==
    /\ pc = "TRYING_FALLBACK"
    /\ calls' = Append(calls, fallback_engine)
    /\ IF env.fallback = "raise"
       THEN /\ pc' = "FAILED"
            /\ client' = NoClient
            /\ error' = [type |-> "ConstructorError", message |-> "fallback", causes |-> {"fallback"}]
       ELSE /\ pc' = "SUCCEEDED"
            /\ client' = [engine |-> fallback_engine, role |-> "fallback",
                          available |-> (env.fallback = "ok")]
            /\ error' = NoError
    /\ UNCHANGED <<engines, primary_engine, fallback_engine, api_key, env>>
    /\ UNCHANGED selectorVars
    /\ UNCHANGED extraVars

\* the caller takes the client or the exception
Return ==
    /\ pc \in {"SUCCEEDED", "FAILED"}
    /\ pc' = "idle"
    /\ primary_engine' = "none"
    /\ fallback_engine' = "none"
    /\ api_key' = ""
    /\ env' = NoEnv
    /\ calls' = << >>
    /\ client' = NoClient
    /\ error' = NoError
    /\ available_engines' = CapabilityKeys
    /\ given' = GivenNone
    /\ result' = NoResult
    /\ UNCHANGED <<engines, context, priority, scenario, engine_score, weights>>
    /\ UNCHANGED extraVars

Outcomes == {"raise", "unavailable", "ok"}

\* the caller holds no result of an earlier call
Idle == context = NoContext /\ result = NoResult /\ scenario = "none" /\ engine_score = NoScore

\* EngineSelector() when isNone, else EngineSelector(available_engines=ids)
NewSelector(isNone, ids) ==
    /\ Idle
    /\ available_engines' = SelectorInit(isNone, ids)
    /\ given' = IF isNone THEN GivenNone ELSE GivenList(ids)
    /\ UNCHANGED <<context, priority, scenario, result, engine_score, weights>>
    /\ UNCHANGED factoryVars
    /\ UNCHANGED extraVars

\* selector.detect_scenario(ctx)
DetectScenario(ctx) ==
    /\ Idle
    /\ context' = ctx
    /\ scenario' = detect_scenario(ctx)
    /\ UNCHANGED <<available_engines, priority, result, given, engine_score, weights>>
    /\ UNCHANGED factoryVars
    /\ UNCHANGED extraVars

\* selector.select(ctx, prio)
Select(ctx, prio) ==
    /\ Idle
    /\ context' = ctx
    /\ priority' = prio
    /\ scenario' = detect_scenario(ctx)
    /\ result' = select(available_engines, ctx, prio)
    /\ UNCHANGED <<available_engines, given, engine_score, weights>>
    /\ UNCHANGED factoryVars
    /\ UNCHANGED extraVars

\* selector._score_engine(engine, sc, ctx, w)
ScoreEngine(engine, sc, ctx, w) ==
    /\ Idle
    /\ context' = ctx
    /\ scenario' = sc
    /\ weights' = w
    /\ engine_score' = score_engine(engine, sc, ctx, w)
    /\ UNCHANGED <<available_engines, priority, result, given>>
    /\ UNCHANGED factoryVars
    /\ UNCHANGED extraVars

\* the caller is done with the returned value; the selector lives on
Discard ==
    /\ ~Idle
    /\ context' = NoContext
    /\ priority' = "None"
    /\ scenario' = "none"
    /\ result' = NoResult
    /\ engine_score' = NoScore
    /\ weights' = NoWeights
    /\ UNCHANGED <<available_engines, given>>
    /\ UNCHANGED factoryVars
    /\ UNCHANGED extraVars

\* ------------------------------------------------------------ EngineManager
EngineTypes == {"ASR", "TTS", "SPEAKER"}

\* engine names the manager is called with, in the order of Python's string
\* comparison
NameOrder == <<"funasr", "moss", "nano-2512", "pyannote", "sherpa-kokoro", "sherpa-vits", "whisper">>

ManagerNames == {NameOrder[i] : i \in 1..Len(NameOrder)}

NameRank(n) == CHOOSE i \in 1..Len(NameOrder) : NameOrder[i] = n

NameLess(a, b) == NameRank(a) < NameRank(b)

\* EngineConfig(name, type, priority); the other fields play no part in the
\* registry operations
EngineConfig(name, type, prio) == [name |-> name, type |-> type, priority |-> prio]

EmptyMap == [n \in {} |-> 0]

\* d[k] = v on a dict
Put(d, k, v) == [n \in DOMAIN d \cup {k} |-> IF n = k THEN v ELSE d[n]]

\* del d[k]
Remove(d, k) == [n \in DOMAIN d \ {k} |-> d[n]]

\* self._configs[config.type][config.name] = config
register_engine(cfgs, config) ==
    [cfgs EXCEPT ![config.type] = Put(@, config.name, config)]

\* unregister_engine that empties the dict of the type
unregister_engine_clear(cfgs, type, name) ==
    IF name \in DOMAIN cfgs[type] THEN [cfgs EXCEPT ![type] = EmptyMap] ELSE cfgs

\* if name in self._configs[engine_type]: del self._configs[engine_type][name]
unregister_engine(cfgs, type, name) ==
    IF name \in DOMAIN cfgs[type] THEN [cfgs EXCEPT ![type] = Remove(@, name)] ELSE cfgs

\* _register_default_engines
DefaultConfigs ==
    <<EngineConfig("funasr", "ASR", 100),
      EngineConfig("nano-2512", "ASR", 90),
      EngineConfig("moss", "ASR", 50),
      EngineConfig("sherpa-vits", "TTS", 100),
      EngineConfig("sherpa-kokoro", "TTS", 80)>>

RECURSIVE RegisterAll(_, _)
RegisterAll(cfgs, list) ==
    IF list = << >> THEN cfgs
    ELSE RegisterAll(register_engine(cfgs, Head(list)), Tail(list))

\* max((c.priority for c in d.values()), default=0)
MaxPriority(d) ==
    IF DOMAIN d = {} THEN 0
    ELSE CHOOSE p \in {d[n].priority : n \in DOMAIN d} :
             \A n \in DOMAIN d : d[n].priority <= p

\* the entry engines.sort(key=lambda x: (-x.priority, x.name)) puts first
FirstOf(d, names) ==
    CHOOSE n \in names :
        \A o \in names \ {n} :
            \/ d[n].priority > d[o].priority
            \/ d[n].priority = d[o].priority /\ NameLess(n, o)

RECURSIVE SortedInfos(_, _)
SortedInfos(d, names) ==
    IF names = {} THEN << >>
    ELSE LET n == FirstOf(d, names)
         IN  <<[name |-> n, priority |-> d[n].priority,
                is_default |-> (d[n].priority = MaxPriority(d))]>>
                 \o SortedInfos(d, names \ {n})

\* list_engines: the EngineInfo list sorted by (-priority, name)
list_engines(cfgs, type) == SortedInfos(cfgs[type], DOMAIN cfgs[type])

\* get_default_engine that returns the last entry flagged is_default
get_default_engine_last_flagged(cfgs, type) ==
    LET infos == list_engines(cfgs, type)
        flagged == {i \in 1..Len(infos) : infos[i].is_default}
    IN  IF flagged # {} THEN infos[CHOOSE i \in flagged : \A j \in flagged : j <= i].name
        ELSE IF Len(infos) > 0 THEN infos[1].name
        ELSE "None"

\* get_default_engine: the first entry flagged is_default, else the first
\* entry, else None
get_default_engine(cfgs, type) ==
    LET infos == list_engines(cfgs, type)
        flagged == {i \in 1..Len(infos) : infos[i].is_default}
    IN  IF flagged # {} THEN infos[CHOOSE i \in flagged : \A j \in flagged : i <= j].name
        ELSE IF Len(infos) > 0 THEN infos[1].name
        ELSE "None"

TTSEngines == {"sherpa-vits", "sherpa-kokoro"}

\* what factory.create(name, **kwargs) of the type's factory can do; the
\* manager has a factory for ASR and TTS only
FactoryCreateOutcomes(type, name) ==
    IF type = "ASR" THEN ConstructOutcomes(name, "")
    ELSE IF type = "TTS" THEN (IF name \in TTSEngines THEN {"raise", "ok"} ELSE {"raise"})
    ELSE {"no-factory"}

\* create_engine(engine_type, name): the exception raised and the number of
\* engine instances created
create_engine(cfgs, type, name, outcome) ==
    IF type \notin {"ASR", "TTS"} THEN [error |-> "ValueError", created |-> 0]
    ELSE IF outcome = "raise" THEN [error |-> "FactoryError", created |-> 0]
    ELSE [error |-> "none", created |-> 1]

\* switch_engine without the test that the target is registered
switch_engine_unchecked(cfgs, type, to_name, outcome) ==
    create_engine(cfgs, type, to_name, outcome)

\* switch_engine(engine_type, from_name, to_name)
switch_engine(cfgs, type, to_name, outcome) ==
    IF to_name \notin DOMAIN cfgs[type] THEN [error |-> "ValueError", created |-> 0]
    ELSE create_engine(cfgs, type, to_name, outcome)

NoCall == [none |-> TRUE]

NoConfig == [none |-> TRUE]

\* priorities register_engine is called with, next to those of the defaults
Priorities == {-1, 100}

\* the configs register_engine is called with
RegisterConfigs ==
    {EngineConfig(n, "ASR", p) : n \in {"funasr", "moss", "whisper"}, p \in Priorities}
        \cup {EngineConfig(n, "TTS", p) : n \in TTSEngines, p \in Priorities}
        \cup {EngineConfig("pyannote", "SPEAKER", 0)}
        \cup {DefaultConfigs[i] : i \in 1..Len(DefaultConfigs)}

ManagerInitState ==
    /\ configs = RegisterAll([t \in EngineTypes |-> EmptyMap], DefaultConfigs)
    /\ mgr_call = NoCall

ManagerIdle == mgr_call = NoCall

notManagerVars == <<selectorVars, factoryVars, imeVars, kwargsVars, concurrentVars>>

\* manager.register_engine(config)
RegisterEngine(config) ==
    /\ configs' = register_engine(configs, config)
    /\ mgr_call' = [op |-> "register_engine", type |-> config.type, name |-> config.name,
                    config |-> config, before |-> configs, value |-> "None",
                    error |-> "none", created |-> 0]
    /\ UNCHANGED notManagerVars

\* manager.unregister_engine(type, name)
UnregisterEngine(type, name) ==
    /\ configs' = unregister_engine(configs, type, name)
    /\ mgr_call' = [op |-> "unregister_engine", type |-> type, name |-> name,
                    config |-> NoConfig, before |-> configs, value |-> "None",
                    error |-> "none", created |-> 0]
    /\ UNCHANGED notManagerVars

\* manager.get_default_engine(type)
GetDefaultEngine(type) ==
    /\ mgr_call' = [op |-> "get_default_engine", type |-> type, name |-> "None",
                    config |-> NoConfig, before |-> configs,
                    value |-> get_default_engine(configs, type),
                    error |-> "none", created |-> 0]
    /\ UNCHANGED configs
    /\ UNCHANGED notManagerVars

\* manager.switch_engine(type, get_default_engine(type), to_name); outcome is
\* what the factory does in this run
SwitchEngine(type, to_name, outcome) ==
    /\ outcome \in FactoryCreateOutcomes(type, to_name)
    /\ LET done == switch_engine(configs, type, to_name, outcome)
       IN  mgr_call' = [op |-> "switch_engine", type |-> type, name |-> to_name,
                        config |-> NoConfig, before |-> configs, value |-> "None",
                        error |-> done.error, created |-> done.created]
    /\ UNCHANGED configs
    /\ UNCHANGED notManagerVars

\* the caller takes the value or the exception
ManagerReturn ==
    /\ ~ManagerIdle
    /\ mgr_call' = NoCall
    /\ UNCHANGED configs
    /\ UNCHANGED notManagerVars

ManagerNext ==
    \/ ManagerIdle /\ \E config \in RegisterConfigs : RegisterEngine(config)
    \/ ManagerIdle /\ \E type \in EngineTypes, name \in ManagerNames : UnregisterEngine(type, name)
    \/ ManagerIdle /\ \E type \in EngineTypes : GetDefaultEngine(type)
    \/ ManagerIdle /\ \E type \in EngineTypes, to_name \in ManagerNames,
                         outcome \in {"raise", "unavailable", "ok", "no-factory"} :
           SwitchEngine(type, to_name, outcome)
    \/ ManagerReturn

\* ----------------------------------------------------------------- VoiceIME
\* the --scenario choices of the command line; "None" when it is not given
ScenarioArgs ==
    {"None", "realtime", "transcription", "meeting", "multilingual", "command", "general"}

\* scenario_map of VoiceIME.__init__
scenario_map ==
    [x \in ScenarioArgs \ {"None"} |->
        CASE x = "realtime" -> "REALTIME"
          [] x = "transcription" -> "TRANSCRIPTION"
          [] x = "meeting" -> "MEETING"
          [] x = "multilingual" -> "MULTILINGUAL"
          [] x = "command" -> "COMMAND"
          [] x = "general" -> "GENERAL"]

\* the AudioContext VoiceIME.__init__ builds in smart mode: a streaming
\* context whose language_hint field is overwritten with the scenario name
SmartContext(scenario_arg, prio) ==
    [duration_seconds |-> 0,
     estimated_speakers |-> 1,
     language_hint |-> IF scenario_arg \in DOMAIN scenario_map THEN scenario_arg ELSE "auto",
     is_streaming |-> TRUE,
     priority |-> prio]

\* what opening the input stream does in Recorder.start
StartOutcomes == {"ok", "raise_open", "raise_start"}

\* Recorder.start that leaves is_recording set when the stream fails
recorder_start_no_reset(rec, o) ==
    IF rec.is_recording THEN [rec |-> rec, ret |-> FALSE]
    ELSE IF o = "ok"
         THEN [rec |-> [is_recording |-> TRUE, audio_data |-> 0, stream |-> "started"], ret |-> TRUE]
         ELSE [rec |-> [is_recording |-> TRUE, audio_data |-> 0,
                        stream |-> IF o = "raise_start" THEN "unstarted" ELSE rec.stream],
               ret |-> FALSE]

\* Recorder.start: the recorder after the call and the returned value
recorder_start(rec, o) ==
    IF rec.is_recording THEN [rec |-> rec, ret |-> FALSE]
    ELSE IF o = "ok"
         THEN [rec |-> [is_recording |-> TRUE, audio_data |-> 0, stream |-> "started"], ret |-> TRUE]
         ELSE [rec |-> [is_recording |-> FALSE, audio_data |-> 0,
                        stream |-> IF o = "raise_start" THEN "unstarted" ELSE rec.stream],
               ret |-> FALSE]

\* Recorder.stop: the recorder after the call and whether an array is returned
recorder_stop(rec) ==
    IF ~rec.is_recording THEN [rec |-> rec, ret |-> "None"]
    ELSE [rec |-> [is_recording |-> FALSE, audio_data |-> rec.audio_data, stream |-> "None"],
          ret |-> IF rec.audio_data > 0 THEN "array" ELSE "None"]

NoArgs == [none |-> TRUE]

NoPress == [none |-> TRUE]

Recorder == [is_recording |-> is_recording, audio_data |-> audio_data, stream |-> stream]

ImeInitState ==
    /\ state = "none"
    /\ is_recording = FALSE
    /\ audio_data = 0
    /\ stream = "None"
    /\ selection_result = NoResult
    /\ ime_args = NoArgs
    /\ ime_pc = "waiting"
    /\ last_press = NoPress

notImeVars == <<selectorVars, factoryVars, managerVars, kwargsVars, concurrentVars>>

\* VoiceIME(smart_mode=smart, scenario=scenario_arg, priority=prio); built
\* tells whether the factory returned a client or raised
NewVoiceIME(smart, scenario_arg, prio, built) ==
    /\ state = "none"
    /\ ime_args' = [smart_mode |-> smart, scenario |-> scenario_arg, priority |-> prio]
    /\ state' = IF built THEN "idle" ELSE "none"
    /\ selection_result' =
           IF built /\ smart
           THEN select(SelectorInit(FALSE, get_available_engines),
                       SmartContext(scenario_arg, prio), "None")
           ELSE NoResult
    /\ UNCHANGED <<is_recording, audio_data, stream, ime_pc, last_press>>
    /\ UNCHANGED notImeVars

\* Recorder.callback: one more block of samples while recording
AudioCallback ==
    /\ is_recording
    /\ audio_data < MaxChunks
    /\ audio_data' = audio_data + 1
    /\ UNCHANGED <<state, is_recording, stream, selection_result, ime_args, ime_pc, last_press>>
    /\ UNCHANGED notImeVars

\* on_hotkey in state 'idle'
HotkeyIdle(o) ==
    /\ state = "idle"
    /\ ime_pc = "waiting"
    /\ LET r == recorder_start(Recorder, o)
       IN  /\ is_recording' = r.rec.is_recording
           /\ audio_data' = r.rec.audio_data
           /\ stream' = r.rec.stream
           /\ state' = IF r.ret THEN "recording" ELSE "idle"
    /\ last_press' = [from |-> "idle", start |-> o, recognition |-> "none"]
    /\ UNCHANGED <<selection_result, ime_args, ime_pc>>
    /\ UNCHANGED notImeVars

\* on_hotkey in state 'recording', up to the transcribe call of process_audio
HotkeyRecording ==
    /\ state = "recording"
    /\ ime_pc = "waiting"
    /\ LET r == recorder_stop(Recorder)
       IN  /\ is_recording' = r.rec.is_recording
           /\ audio_data' = r.rec.audio_data
           /\ stream' = r.rec.stream
           /\ IF r.ret = "array"
              THEN /\ state' = "processing"
                   /\ ime_pc' = "process_audio"
                   /\ last_press' = [from |-> "recording", start |-> "none", recognition |-> "pending"]
              ELSE /\ state' = "idle"
                   /\ ime_pc' = "waiting"
                   /\ last_press' = [from |-> "recording", start |-> "none", recognition |-> "skipped"]
    /\ UNCHANGED <<selection_result, ime_args>>
    /\ UNCHANGED notImeVars

\* the rest of process_audio: client.transcribe returns or raises
ProcessAudio(o) ==
    /\ ime_pc = "process_audio"
    /\ state' = IF o = "raise" THEN "error" ELSE state
    /\ ime_pc' = "after_process_audio"
    /\ last_press' = [last_press EXCEPT !.recognition = o]
    /\ UNCHANGED <<is_recording, audio_data, stream, selection_result, ime_args>>
    /\ UNCHANGED notImeVars

\* the end of on_hotkey: self.state = 'idle'
FinishHotkey ==
    /\ ime_pc = "after_process_audio"
    /\ state' = "idle"
    /\ ime_pc' = "waiting"
    /\ UNCHANGED <<is_recording, audio_data, stream, selection_result, ime_args, last_press>>
    /\ UNCHANGED notImeVars

ImeNext ==
    \/ \E smart \in BOOLEAN, scenario_arg \in ScenarioArgs, prio \in ContextPriorities,
          built \in BOOLEAN :
           NewVoiceIME(smart, scenario_arg, prio, built)
    \/ AudioCallback
    \/ \E o \in StartOutcomes : HotkeyIdle(o)
    \/ HotkeyRecording
    \/ \E o \in {"ok", "raise"} : ProcessAudio(o)
    \/ FinishHotkey

\* ------------------------------------------- create_with_fallback, kwargs
\* a dict literal from a list of <<key, value>> pairs
RECURSIVE Dict(_)
Dict(pairs) ==
    IF pairs = << >> THEN EmptyMap
    ELSE Put(Dict(Tail(pairs)), Head(pairs)[1], Head(pairs)[2])

\* the **kwargs callers pass: those main() builds for --asr moss, funasr and
\* nano-2512, the prefixed generic names, and none
KwargsArgs ==
    {Dict(<< >>),
     Dict(<<<<"api_key", "key">>, <<"model", "moss-transcribe-diarize">>>>),
     Dict(<<<<"api_key", "">>, <<"model", "sensevoice">>, <<"device", "cuda">>,
            <<"enable_diarization", "True">>>>),
     Dict(<<<<"api_key", "key">>, <<"model", "paraformer-zh">>, <<"device", "cpu">>,
            <<"enable_diarization", "False">>>>),
     Dict(<<<<"api_key", "">>, <<"model", "nano-2512">>, <<"device", "cpu">>>>),
     Dict(<<<<"api_key", "key">>, <<"model", "nano-2512">>, <<"device", "cuda">>>>),
     Dict(<<<<"funasr_model", "sensevoice">>, <<"funasr_device", "cuda">>,
            <<"nano_device", "cuda">>, <<"hotkey", "f2">>>>),
     Dict(<<<<"api_key", "key">>, <<"model", "">>, <<"funasr_model", "paraformer-en">>,
            <<"hotkey", "f2">>>>)}

\* kwargs.get(key, default); a missing default is None
Get(kw, key, default) == IF key \in DOMAIN kw THEN kw[key] ELSE default

\* Python's "a or b" on strings and None
Or(a, b) == IF a \notin {"None", ""} THEN a ELSE b

\* the model names FunASRClient knows (MODEL_REPO_MAP)
FunASRModels == {"paraformer-zh", "sensevoice", "paraformer-en", "telephone"}

\* primary_kwargs of create_with_fallback
primary_kwargs(primary, kw) ==
    IF primary = "funasr"
    THEN Dict(<<<<"model", Or(Get(kw, "model", "None"), Get(kw, "funasr_model", "paraformer-zh"))>>,
                <<"device", Or(Get(kw, "device", "None"), Get(kw, "funasr_device", "cpu"))>>,
                <<"enable_diarization", Get(kw, "enable_diarization", "False")>>>>)
    ELSE IF primary \in {"nano-2512", "nano-mlt"}
    THEN Dict(<<<<"model", Or(Get(kw, "model", "None"), primary)>>,
                <<"device", Or(Get(kw, "device", "None"), Get(kw, "nano_device", "cpu"))>>>>)
    ELSE IF primary = "moss"
    THEN Dict(<<<<"api_key", Get(kw, "api_key", "")>>>>)
    ELSE kw

\* fallback_kwargs of create_with_fallback
fallback_kwargs(fallback, kw) ==
    IF fallback = "moss"
    THEN Dict(<<<<"api_key", Get(kw, "api_key", "")>>>>)
    ELSE IF fallback = "funasr"
    THEN Dict(<<<<"model", Or(Get(kw, "model", "None"), Get(kw, "funasr_model", "paraformer-zh"))>>,
                <<"device", Or(Get(kw, "device", "None"), Get(kw, "funasr_device", "cpu"))>>>>)
    ELSE kw

NoKwargs == [none |-> TRUE]

KwargsInitState ==
    /\ kwargs = NoKwargs
    /\ passed = << >>

KwargsIdle == kwargs = NoKwargs

notKwargsVars == <<selectorVars, factoryVars, managerVars, imeVars, concurrentVars>>

\* ASRClientFactory.create_with_fallback(primary, fallback, **kw): the
\* constructor calls it makes and the kwargs each receives; o1 is what
\* constructing the primary does in this run
CreateWithKwargs(primary, fallback, kw, o1) ==
    /\ o1 \in ConstructOutcomes(primary, Get(kw, "api_key", ""))
    /\ kwargs' = [primary_engine |-> primary, fallback_engine |-> fallback, kwargs |-> kw]
    /\ passed' =
           <<[engine |-> primary, role |-> "primary", kwargs |-> primary_kwargs(primary, kw)]>>
               \o (IF o1 # "ok"
                      /\ AfterPrimaryFailure(primary, fallback, Get(kw, "api_key", ""))
                             = "TRYING_FALLBACK"
                   THEN <<[engine |-> fallback, role |-> "fallback",
                           kwargs |-> fallback_kwargs(fallback, kw)]>>
                   ELSE << >>)
    /\ UNCHANGED notKwargsVars

\* the caller takes the client or the exception
KwargsReturn ==
    /\ ~KwargsIdle
    /\ kwargs' = NoKwargs
    /\ passed' = << >>
    /\ UNCHANGED notKwargsVars

KwargsNext ==
    \/ KwargsIdle /\ \E primary \in EngineArgs, fallback \in EngineArgs, kw \in KwargsArgs,
                        o1 \in Outcomes :
           CreateWithKwargs(primary, fallback, kw, o1)
    \/ KwargsReturn

\* ---------------------------------------------------- concurrent selections
\* the callers that run select on the one selector at the same time
Callers == {1, 2}

\* the contexts and priority arguments of the concurrent calls
ConcurrentContexts ==
    {[duration_seconds |-> 0, estimated_speakers |-> 1, language_hint |-> "auto",
      is_streaming |-> TRUE, priority |-> "balanced"],
     [duration_seconds |-> 61, estimated_speakers |-> 2, language_hint |-> "zh",
      is_streaming |-> FALSE, priority |-> "accuracy"],
     [duration_seconds |-> 4, estimated_speakers |-> 1, language_hint |-> "en",
      is_streaming |-> FALSE, priority |-> "latency"],
     [duration_seconds |-> 4, estimated_speakers |-> 1, language_hint |-> "zh",
      is_streaming |-> FALSE, priority |-> "latency"]}

ConcurrentPriorities == {"None", "latency"}

\* a scores list kept in one place shared by all calls
ScoresOwner_shared(caller) == 1

\* "scores: List[...] = []" is a local of select: each call owns its list
ScoresOwner(caller) == caller

\* the SelectionResult select builds from its sorted scores
ResultOf(sorted, sc) ==
    IF sorted = << >>
    THEN [recommended_engine |-> "paraformer-zh",
          fallback_engine |-> "moss",
          scenario |-> "GENERAL",
          confidence |-> 0,
          score |-> EmptyScore,
          alternatives |-> << >>]
    ELSE [recommended_engine |-> sorted[1].engine_name,
          fallback_engine |-> FallbackOf(sorted[1].engine_name),
          scenario |-> sc,
          confidence |-> Confidence(sorted),
          score |-> sorted[1],
          alternatives |-> [i \in 1..(IF Len(sorted) > 4 THEN 3 ELSE Len(sorted) - 1) |->
                               sorted[i + 1].engine_name]]

NoRequest == [none |-> TRUE]

ConcurrentInitState ==
    /\ requests = [c \in Callers |-> NoRequest]
    /\ scores = [c \in Callers |-> << >>]

notConcurrentVars == <<selectorVars, factoryVars, managerVars, imeVars, kwargsVars>>

\* select(ctx, prio) up to the scoring loop: scenario, weights, scores = []
SelectBegin(caller, ctx, prio) ==
    /\ requests[caller] = NoRequest
    /\ requests' = [requests EXCEPT ![caller] =
                       [pc |-> "scoring", context |-> ctx, priority |-> prio,
                        scenario |-> detect_scenario(ctx),
                        weights |-> ResolveWeights(detect_scenario(ctx), prio),
                        i |-> 1, result |-> NoResult]]
    /\ scores' = [scores EXCEPT ![ScoresOwner(caller)] = << >>]
    /\ UNCHANGED notConcurrentVars

\* one turn of "for engine in self._available_engines"
SelectScore(caller) ==
    /\ requests[caller] # NoRequest
    /\ requests[caller].pc = "scoring"
    /\ requests[caller].i <= Len(available_engines)
    /\ LET r == requests[caller]
       IN  /\ scores' = [scores EXCEPT ![ScoresOwner(caller)] =
                            Append(@, score_engine(available_engines[r.i], r.scenario,
                                                   r.context, r.weights))]
           /\ requests' = [requests EXCEPT ![caller].i = r.i + 1]
    /\ UNCHANGED notConcurrentVars

\* after the loop: sort, and build the SelectionResult
SelectFinish(caller) ==
    /\ requests[caller] # NoRequest
    /\ requests[caller].pc = "scoring"
    /\ requests[caller].i > Len(available_engines)
    /\ requests' = [requests EXCEPT ![caller].pc = "done",
                                    ![caller].result =
                                        ResultOf(SortDesc(scores[ScoresOwner(caller)]),
                                                 requests[caller].scenario)]
    /\ UNCHANGED scores
    /\ UNCHANGED notConcurrentVars

\* the caller takes its SelectionResult
SelectReturn(caller) ==
    /\ requests[caller] # NoRequest
    /\ requests[caller].pc = "done"
    /\ requests' = [requests EXCEPT ![caller] = NoRequest]
    /\ UNCHANGED scores
    /\ UNCHANGED notConcurrentVars

ConcurrentNext ==
    \/ \E caller \in Callers, ctx \in ConcurrentContexts, prio \in ConcurrentPriorities :
           SelectBegin(caller, ctx, prio)
    \/ \E caller \in Callers : SelectScore(caller)
    \/ \E caller \in Callers : SelectFinish(caller)
    \/ \E caller \in Callers : SelectReturn(caller)

\* --------------------------------------------------------------- behaviour
Init == SelectorInitState /\ FactoryInitState /\ ManagerInitState /\ ImeInitState
            /\ KwargsInitState /\ ConcurrentInitState

Next ==
    \/ Idle /\ \E ids \in CandidateLists : NewSelector(FALSE, ids)
    \/ NewSelector(TRUE, << >>)
    \/ Idle /\ \E ctx \in AudioContext : DetectScenario(ctx)
    \/ Idle /\ \E ctx \in AudioContext, prio \in PriorityArgs : Select(ctx, prio)
    \/ Discard

Spec == Init /\ [][Next]_vars

\* the scorer called directly, and the selector handed malformed contexts
ScorerNext ==
    \/ Idle /\ \E engine \in CandidateIds, sc \in Scenarios, ctx \in AudioContext, w \in WeightTriples :
           ScoreEngine(engine, sc, ctx, w)
    \/ Idle /\ \E ctx \in MalformedContexts : DetectScenario(ctx)
    \/ Idle /\ \E ctx \in MalformedContexts, prio \in PriorityArgs : Select(ctx, prio)
    \/ Discard

ScorerSpec == Init /\ [][ScorerNext]_vars

FactoryNext ==
    \/ FactoryIdle /\ \E name \in RegisterNames : Register(name)
    \/ FactoryIdle /\ \E primary \in EngineArgs, fallback \in EngineArgs, key \in ApiKeys,
                          o1 \in Outcomes, o2 \in Outcomes :
           CreateWithFallback(primary, fallback, key, o1, o2)
    \/ FactoryIdle /\ \E ctx \in AudioContext, key \in ApiKeys, o1 \in Outcomes, o2 \in Outcomes :
           CreateSmart(ctx, key, o1, o2)
    \/ TryPrimary
    \/ TryFallback
    \/ Return

FactorySpec == Init /\ [][FactoryNext]_vars

ManagerSpec == Init /\ [][ManagerNext]_vars

ImeSpec == Init /\ [][ImeNext]_vars

KwargsSpec == Init /\ [][KwargsNext]_vars

ConcurrentSpec == Init /\ [][ConcurrentNext]_vars

\* ------------------------------------------------- properties, selector
\* the total select gives engine e in the current call
TotalOf(e) ==
    score_engine(e, scenario, context, ResolveWeights(scenario, priority)).total_score

\* the ranking a SelectionResult exposes: the winner, then the alternates
RankingOf(r) == <<r.recommended_engine>> \o r.alternatives

\* C1: detect_scenario returns the scenario of the first matching rule, in the
\* order streaming, language, short command, speakers, long transcription,
\* general; it is total over the six scenarios; streaming with 'multi' is
\* REALTIME, a short latency-priority context with several speakers is COMMAND
\* and a long accuracy-priority context with several speakers is MEETING.
C1_ScenarioPrecedence ==
    scenario # "none" =>
        LET c == context
            r1 == c.is_streaming
            r2 == c.language_hint \in {"en", "multi"}
            r3 == c.duration_seconds < 5 /\ c.priority = "latency"
            r4 == c.estimated_speakers > 1
            r5 == c.duration_seconds > 60 /\ c.priority = "accuracy"
        IN  /\ scenario \in Scenarios
            /\ r1 => scenario = "REALTIME"
            /\ (~r1 /\ r2) => scenario = "MULTILINGUAL"
            /\ (~r1 /\ ~r2 /\ r3) => scenario = "COMMAND"
            /\ (~r1 /\ ~r2 /\ ~r3 /\ r4) => scenario = "MEETING"
            /\ (~r1 /\ ~r2 /\ ~r3 /\ ~r4 /\ r5) => scenario = "TRANSCRIPTION"
            /\ (~r1 /\ ~r2 /\ ~r3 /\ ~r4 /\ ~r5) => scenario = "GENERAL"
            /\ (c.is_streaming /\ c.language_hint = "multi") => scenario = "REALTIME"
            /\ (~c.is_streaming /\ c.language_hint \in {"zh", "auto"} /\ r3 /\ r4)
                   => scenario = "COMMAND"
            /\ (~c.is_streaming /\ c.language_hint \in {"zh", "auto"} /\ r5 /\ r4)
                   => scenario = "MEETING"

\* a short latency-priority context with several speakers was classified
C1_Witness ==
    /\ scenario = "COMMAND"
    /\ context # NoContext
    /\ context.estimated_speakers > 1
    /\ context.duration_seconds < 5
    /\ context.priority = "latency"

\* C2: among candidates of equal total, select ranks the lexicographically
\* smaller engine identifier first, whatever the order of the candidate list.
C2_TieBrokenByIdentifier ==
    result # NoResult =>
        LET ranking == RankingOf(result)
        IN  \A i \in 1..(Len(ranking) - 1) :
                TotalOf(ranking[i]) = TotalOf(ranking[i + 1])
                    => ~IdLess(ranking[i + 1], ranking[i])

\* the largest total among the candidates, and the largest among the others
TopTotal == 
    LET n == Len(available_engines)
    IN  CHOOSE t \in {TotalOf(available_engines[i]) : i \in 1..n} :
            \A i \in 1..n : TotalOf(available_engines[i]) <= t

SecondTotal ==
    LET n == Len(available_engines)
        top == CHOOSE i \in 1..n : TotalOf(available_engines[i]) = TopTotal
    IN  CHOOSE t \in {TotalOf(available_engines[i]) : i \in (1..n) \ {top}} :
            \A i \in (1..n) \ {top} : TotalOf(available_engines[i]) <= t

\* C10: confidence lies in [0, 1]; with at least two candidates it is
\* (top total - second total) / 100 clamped to [0, 1]; with exactly one
\* candidate it is 1.0.  (Confidence is in units of 1/100000, totals in
\* thousandths.)
C10_Confidence ==
    result # NoResult =>
        /\ result.confidence >= 0
        /\ result.confidence <= 100000
        /\ Len(available_engines) = 1 => result.confidence = 100000
        /\ Len(available_engines) >= 2 =>
               LET d == TopTotal - SecondTotal
               IN  result.confidence = (IF d < 0 THEN 0 ELSE IF d > 100000 THEN 100000 ELSE d)

\* a selection among two candidates with a positive margin
C10_Witness ==
    /\ result # NoResult
    /\ Len(available_engines) >= 2
    /\ result.confidence > 0
    /\ result.confidence < 100000

\* how often id e occurs in the list
CountOf(list, e) == Cardinality({i \in 1..Len(list) : list[i] = e})

\* the selector ranks exactly the four reference engines
FourCandidates ==
    Len(available_engines) = 4 /\ {available_engines[i] : i \in 1..4} = KnownEngines

\* C11: with no candidate engine (empty list, or only unknown ids) select
\* returns the degraded result: the default engine, scenario GENERAL,
\* confidence 0.0 and no alternates, for any context and priority.
C11_DegradedResult ==
    (result # NoResult /\ available_engines = << >>) =>
        result = [recommended_engine |-> "paraformer-zh",
                  fallback_engine |-> "moss",
                  scenario |-> "GENERAL",
                  confidence |-> 0,
                  score |-> [engine_name |-> "none", total_score |-> 0, latency_score |-> 0,
                             accuracy_score |-> 0, resource_score |-> 0, reasons |-> << >>],
                  alternatives |-> << >>]

\* a selector built from unknown ids only has answered a streaming request
C11_Witness ==
    /\ result # NoResult
    /\ available_engines = << >>
    /\ ~given.none
    /\ Len(given.ids) > 0
    /\ scenario = "REALTIME"
    /\ priority = "latency"

\* C12: the recommended engine is a candidate of maximal total, and the
\* alternates are the 2nd to 4th ranked candidates in descending order of
\* total, min(3, candidates - 1) of them.
C12_RankedAlternates ==
    (result # NoResult /\ Len(available_engines) >= 1) =>
        LET n == Len(available_engines)
            ranking == RankingOf(result)
            m == Len(ranking)
        IN  /\ \E i \in 1..n : available_engines[i] = result.recommended_engine
            /\ \A i \in 1..n : TotalOf(available_engines[i]) <= TotalOf(result.recommended_engine)
            /\ Len(result.alternatives) = (IF n - 1 < 3 THEN n - 1 ELSE 3)
            /\ \A i \in 1..(m - 1) : TotalOf(ranking[i]) >= TotalOf(ranking[i + 1])
            /\ \A e \in KnownEngines : CountOf(ranking, e) <= CountOf(available_engines, e)
            /\ \A e \in KnownEngines :
                   CountOf(ranking, e) < CountOf(available_engines, e)
                       => TotalOf(e) <= TotalOf(ranking[m])

\* five candidates were ranked and three alternates returned
C12_Witness ==
    /\ result # NoResult
    /\ Len(available_engines) = 5
    /\ Len(result.alternatives) = 3

\* C13 as stated: for every candidate list and context the fallback differs
\* from the recommended engine and is the first entry of its FALLBACK_CHAIN.
C13_FallbackIsChainHead ==
    result # NoResult =>
        /\ result.fallback_engine # result.recommended_engine
        /\ result.fallback_engine = FALLBACK_CHAIN[result.recommended_engine][1]

\* C13 amended: the fallback always differs from the recommended engine; it
\* is the first entry of the recommended engine's FALLBACK_CHAIN whenever the
\* selector has at least one candidate, and moss in the degraded result.
C13_FallbackOfWinner ==
    result # NoResult =>
        /\ result.fallback_engine # result.recommended_engine
        /\ Len(available_engines) >= 1
               => result.fallback_engine = FALLBACK_CHAIN[result.recommended_engine][1]
        /\ Len(available_engines) = 0 => result.fallback_engine = "moss"

\* a selection among several candidates won by an engine with a two-entry chain
C13_Witness ==
    /\ result # NoResult
    /\ Len(available_engines) >= 2
    /\ result.recommended_engine = "sensevoice"
    /\ result.fallback_engine = "paraformer-zh"

\* C14: whatever ids the selector was given, the recommended engine, the
\* fallback and every alternate are keys of ENGINE_CAPABILITIES, and so is
\* every identifier of FALLBACK_CHAIN.
C14_OnlyRegistryIds ==
    /\ \A e \in DOMAIN FALLBACK_CHAIN :
           /\ e \in DOMAIN ENGINE_CAPABILITIES
           /\ \A i \in 1..Len(FALLBACK_CHAIN[e]) : FALLBACK_CHAIN[e][i] \in DOMAIN ENGINE_CAPABILITIES
    /\ result # NoResult =>
           /\ result.recommended_engine \in DOMAIN ENGINE_CAPABILITIES
           /\ result.fallback_engine \in DOMAIN ENGINE_CAPABILITIES
           /\ \A i \in 1..Len(result.alternatives) :
                  result.alternatives[i] \in DOMAIN ENGINE_CAPABILITIES

\* a selector given an unknown id next to a known one has selected
C14_Witness ==
    /\ result # NoResult
    /\ ~given.none
    /\ \E i \in 1..Len(given.ids) : given.ids[i] \notin DOMAIN ENGINE_CAPABILITIES
    /\ Len(available_engines) >= 1

\* C15: for a streaming context and any priority argument, with the four
\* reference engines as candidates, select detects REALTIME and recommends
\* nano-2512 with confidence > 0; no engine without streaming outranks it.
C15_StreamingWins ==
    (result # NoResult /\ context.is_streaming /\ FourCandidates) =>
        /\ scenario = "REALTIME"
        /\ result.scenario = "REALTIME"
        /\ result.recommended_engine = "nano-2512"
        /\ result.confidence > 0
        /\ \A e \in KnownEngines :
               ~ENGINE_CAPABILITIES[e].streaming => TotalOf(e) < result.score.total_score

\* a streaming request under the accuracy override, all four engines ranked
C15_Witness ==
    /\ result # NoResult
    /\ context.is_streaming
    /\ priority = "accuracy"
    /\ context.language_hint = "zh"
    /\ FourCandidates
    /\ result.recommended_engine = "nano-2512"

OverrideTriple(p) ==
    CASE p = "latency" -> [latency |-> 6, accuracy |-> 3, resource |-> 1]
      [] p = "accuracy" -> [latency |-> 2, accuracy |-> 7, resource |-> 1]
      [] p = "balanced" -> [latency |-> 4, accuracy |-> 4, resource |-> 2]

\* C18: with an explicit priority latency, accuracy or balanced the totals
\* are computed with that priority's fixed triple whatever the scenario;
\* with no priority they are computed with SCENARIO_WEIGHTS of the
\* detected scenario.
C18_WeightResolution ==
    (/\ result # NoResult
     /\ Len(available_engines) >= 1
     /\ priority \in {"None", "latency", "accuracy", "balanced"}) =>
        LET w == IF priority = "None" THEN SCENARIO_WEIGHTS[scenario] ELSE OverrideTriple(priority)
            sc == result.score
        IN  /\ sc.total_score = sc.latency_score * w.latency + sc.accuracy_score * w.accuracy
                                    + sc.resource_score * w.resource
            /\ \A i \in 1..Len(available_engines) :
                   score_engine(available_engines[i], scenario, context, w).total_score
                       <= sc.total_score
            /\ \E i \in 1..Len(available_engines) :
                   score_engine(available_engines[i], scenario, context, w) = sc

\* a short command request ranked under the accuracy override
C18_Witness ==
    /\ result # NoResult
    /\ Len(available_engines) >= 2
    /\ scenario = "COMMAND"
    /\ priority = "accuracy"

\* C26: context.priority and the priority argument are independent inputs.
\* With no priority argument, a context that differs only in
\* context.priority and classifies to the same scenario gets the identical
\* SelectionResult (scores and ranking included); and the priority argument
\* never changes the detected scenario.
C26_PriorityInputsIndependent ==
    result # NoResult =>
        /\ priority = "None" =>
               \A p \in ContextPriorities \ {context.priority} :
                   LET other == [context EXCEPT !.priority = p]
                   IN  detect_scenario(other) = detect_scenario(context)
                           => select(available_engines, other, "None") = result
        /\ scenario = detect_scenario(context)
        /\ Len(available_engines) >= 1 => result.scenario = detect_scenario(context)

\* a selection without priority argument among several candidates, for a
\* context whose priority can change without changing its scenario
C26_Witness ==
    /\ result # NoResult
    /\ priority = "None"
    /\ Len(available_engines) >= 2
    /\ context.priority = "accuracy"
    /\ scenario = "MEETING"
    /\ detect_scenario([context EXCEPT !.priority = "latency"]) = "MEETING"

\* C28: for every candidate list, lists that repeat an id included, the
\* alternates of a SelectionResult are pairwise distinct and never contain
\* the recommended engine.
C28_AlternatesDistinct ==
    result # NoResult =>
        /\ \A i, j \in 1..Len(result.alternatives) :
               i # j => result.alternatives[i] # result.alternatives[j]
        /\ \A i \in 1..Len(result.alternatives) :
               result.alternatives[i] # result.recommended_engine

\* -------------------------------------------------- properties, scorer
\* C17 as stated: nano-2512 (latency 95, accuracy 80, resource 70, streaming)
\* under the REALTIME weights, without penalty or language bonus, totals 95.5.
C17_TotalIs955 ==
    (/\ engine_score # NoScore
     /\ engine_score.engine_name = "nano-2512"
     /\ scenario = "REALTIME"
     /\ weights = [latency |-> 5, accuracy |-> 3, resource |-> 2]
     /\ context.language_hint # "zh") =>
        engine_score.total_score = 95500

\* C17 amended: that total is 85.5 = 95*0.5 + 80*0.3 + 70*0.2, with the three
\* component scores left at their base values.
C17_TotalIs855 ==
    (/\ engine_score # NoScore
     /\ engine_score.engine_name = "nano-2512"
     /\ scenario = "REALTIME"
     /\ weights = [latency |-> 5, accuracy |-> 3, resource |-> 2]
     /\ context.language_hint # "zh") =>
        /\ engine_score.total_score = 85500
        /\ engine_score.latency_score = 9500
        /\ engine_score.accuracy_score = 8000
        /\ engine_score.resource_score = 7000

\* nano-2512 was scored under REALTIME with the REALTIME weights, no bonus
C17_Witness ==
    /\ engine_score # NoScore
    /\ engine_score.engine_name = "nano-2512"
    /\ scenario = "REALTIME"
    /\ weights = [latency |-> 5, accuracy |-> 3, resource |-> 2]
    /\ context.language_hint = "auto"

\* C19: scoring an id without capability entry fails with UnknownEngine; no
\* score is ever returned for such an id.
C19_UnknownEngineRejected ==
    engine_score # NoScore => engine_score.engine_name \in DOMAIN ENGINE_CAPABILITIES

\* C20: a context with negative duration_seconds is rejected before
\* classification; no scenario and no SelectionResult is returned for it.
C20_NegativeDurationRejected ==
    (context # NoContext /\ context.duration_seconds < 0) =>
        (scenario = "none" /\ result = NoResult)

\* the factor, in tenths, the text attaches to a condition
Factor(applies, tenths) == IF applies THEN tenths ELSE 10

\* C25: for every reference engine, scenario, language hint and weight
\* triple, _score_engine returns latency = base x 0.1 if REALTIME and not
\* streaming-capable; accuracy = base x 0.5 if MEETING and no diarization,
\* x 0.7 if MULTILINGUAL and fewer than 5 languages, x 1.1 if the hint is zh,
\* x 1.1 if the hint is en and the engine has an English-labelled model;
\* resource = base; total = the weighted sum; nothing else is adjusted.
C25_ScoreFormula ==
    (engine_score # NoScore /\ engine_score.engine_name \in KnownEngines) =>
        LET base == ENGINE_CAPABILITIES[engine_score.engine_name]
            english == "en" \in base.model_names \/ "paraformer-en" \in base.model_names
        IN  /\ engine_score.latency_score * 10
                   = base.latency * 100 * Factor(scenario = "REALTIME" /\ ~base.streaming, 1)
            /\ engine_score.accuracy_score * 10000
                   = base.accuracy * 100
                       * Factor(scenario = "MEETING" /\ ~base.diarization, 5)
                       * Factor(scenario = "MULTILINGUAL" /\ base.languages < 5, 7)
                       * Factor(context.language_hint = "zh", 11)
                       * Factor(context.language_hint = "en" /\ english, 11)
            /\ engine_score.resource_score = base.resource * 100
            /\ engine_score.total_score
                   = engine_score.latency_score * weights.latency
                       + engine_score.accuracy_score * weights.accuracy
                       + engine_score.resource_score * weights.resource

\* paraformer-zh scored under MULTILINGUAL with a zh hint: both the
\* language-count penalty and the zh bonus apply, 90 x 0.7 x 1.1 = 69.3
C25_Witness ==
    /\ engine_score # NoScore
    /\ engine_score.engine_name = "paraformer-zh"
    /\ scenario = "MULTILINGUAL"
    /\ context.language_hint = "zh"
    /\ engine_score.accuracy_score = 6930

\* -------------------------------------------------- properties, factory
\* create_with_fallback has returned or raised
Done == pc \in {"SUCCEEDED", "FAILED"}

\* C3: when constructing the primary raises or gives an unavailable instance,
\* create_with_fallback goes on to construct the designated fallback; it
\* never fails before the fallback has been tried.
C3_FallbackAttempted ==
    pc = "FAILED" => (Len(calls) = 2 /\ calls[2] = fallback_engine)

\* C4: for B the designated fallback of A, when constructing A fails and
\* constructing B succeeds, create_with_fallback(A, B) returns the instance of
\* B and reports that the fallback was used.
C4_DesignatedFallbackReturned ==
    (/\ Done
     /\ primary_engine \in KnownEngines
     /\ fallback_engine = FALLBACK_CHAIN[primary_engine][1]
     /\ env.primary = "raise"
     /\ env.fallback = "ok")
        => (/\ pc = "SUCCEEDED"
            /\ client.engine = fallback_engine
            /\ client.role = "fallback")

\* C5: when the recommended engine of create_smart's selection cannot be
\* constructed and its fallback_engine can, create_smart returns a working
\* instance of that fallback engine.
C5_SmartReturnsFallback ==
    (/\ Done
     /\ result # NoResult
     /\ env.primary # "ok"
     /\ env.fallback = "ok")
        => (/\ pc = "SUCCEEDED"
            /\ client.engine = result.fallback_engine
            /\ client.available)

\* C6: every run follows TRYING_PRIMARY -> {SUCCEEDED | TRYING_FALLBACK},
\* TRYING_FALLBACK -> {SUCCEEDED | FAILED}; at most two constructions, the
\* primary first, the fallback only after the primary failed; an available
\* primary is returned without constructing the fallback; no engine is
\* constructed twice.
C6_TwoStepStateMachine ==
    [][/\ pc = "TRYING_PRIMARY" => pc' \in {"SUCCEEDED", "TRYING_FALLBACK"}
       /\ pc = "TRYING_FALLBACK" => pc' \in {"SUCCEEDED", "FAILED"}
       /\ Len(calls') <= 2
       /\ Len(calls') >= 1 => calls'[1] = primary_engine'
       /\ Len(calls') = 2 =>
              (/\ calls'[2] = fallback_engine'
               /\ env'.primary # "ok"
               /\ calls'[1] # calls'[2])
       /\ (pc' = "SUCCEEDED" /\ env'.primary = "ok") =>
              (client'.role = "primary" /\ Len(calls') = 1)]_vars

\* C7: when the primary and then the fallback fail to construct, the call
\* fails with NoEngineAvailable carrying both failure causes.
C7_NoEngineAvailable ==
    (pc = "FAILED" /\ Len(calls) = 2)
        => (error.type = "NoEngineAvailable" /\ error.causes = {"primary", "fallback"})

\* C8: an instance returned by create_with_fallback, primary or fallback,
\* reports is_available = true.
C8_ReturnedIsAvailable ==
    pc = "SUCCEEDED" => client.available

\* -------------------------------------------------- properties, manager
\* the entries of the registry as (type, name) pairs
EntriesOf(cfgs) == {<<t, n>> \in EngineTypes \X ManagerNames : n \in DOMAIN cfgs[t]}

\* every entry of a other than (type, name) is in b with the same config
SameElsewhere(a, b, type, name) ==
    \A e \in EntriesOf(a) \ {<<type, name>>} :
        e \in EntriesOf(b) /\ b[e[1]][e[2]] = a[e[1]][e[2]]

\* C22: after any sequence of register_engine and unregister_engine calls,
\* get_default_engine(type) returns None exactly when no engine of the type
\* is registered, and otherwise the name of a registered engine of the type
\* with maximal priority, the smallest name on a tie (funasr for ASR and
\* sherpa-vits for TTS with the default registrations).
C22_DefaultEngine ==
    (mgr_call # NoCall /\ mgr_call.op = "get_default_engine") =>
        LET d == configs[mgr_call.type]
            v == mgr_call.value
        IN  /\ v = "None" <=> DOMAIN d = {}
            /\ DOMAIN d # {} =>
                   /\ v \in DOMAIN d
                   /\ \A n \in DOMAIN d : d[n].priority <= d[v].priority
                   /\ \A n \in DOMAIN d : d[n].priority = d[v].priority => ~NameLess(n, v)
            /\ configs = RegisterAll([t \in EngineTypes |-> EmptyMap], DefaultConfigs) =>
                   /\ mgr_call.type = "ASR" => v = "funasr"
                   /\ mgr_call.type = "TTS" => v = "sherpa-vits"

\* the default was asked for after funasr was dropped and two other ASR
\* engines were registered with the same, maximal priority
C22_Witness ==
    /\ mgr_call # NoCall
    /\ mgr_call.op = "get_default_engine"
    /\ mgr_call.type = "ASR"
    /\ "funasr" \notin DOMAIN configs["ASR"]
    /\ {"moss", "whisper", "nano-2512"} \subseteq DOMAIN configs["ASR"]
    /\ configs["ASR"]["moss"].priority = 100
    /\ configs["ASR"]["whisper"].priority = 100
    /\ mgr_call.value = "moss"

\* C23: the registry is a map keyed by (type, name).  register_engine adds
\* or replaces: the entry holds the given config, the count grows by one for
\* a new name and stays for an existing one, and registering a config that is
\* already there changes nothing.  unregister_engine removes exactly the
\* named entry (count minus one) and is a no-op for an absent name.  Neither
\* changes any other entry.
C23_RegistryIsMap ==
    LET t == mgr_call.type
        n == mgr_call.name
        before == mgr_call.before
        present == n \in DOMAIN before[t]
    IN  /\ (mgr_call # NoCall /\ mgr_call.op = "register_engine") =>
               /\ n \in DOMAIN configs[t] /\ configs[t][n] = mgr_call.config
               /\ EntriesOf(configs) = EntriesOf(before) \cup {<<t, n>>}
               /\ Cardinality(DOMAIN configs[t])
                      = Cardinality(DOMAIN before[t]) + (IF present THEN 0 ELSE 1)
               /\ SameElsewhere(before, configs, t, n)
               /\ (present /\ before[t][n] = mgr_call.config) => configs = before
        /\ (mgr_call # NoCall /\ mgr_call.op = "unregister_engine") =>
               /\ EntriesOf(configs) = EntriesOf(before) \ {<<t, n>>}
               /\ Cardinality(DOMAIN configs[t])
                      = Cardinality(DOMAIN before[t]) - (IF present THEN 1 ELSE 0)
               /\ SameElsewhere(before, configs, t, n)
               /\ ~present => configs = before

\* a config was registered under a name that was there with another priority
C23_Witness ==
    /\ mgr_call # NoCall
    /\ mgr_call.op = "register_engine"
    /\ mgr_call.name \in DOMAIN mgr_call.before[mgr_call.type]
    /\ mgr_call.before[mgr_call.type][mgr_call.name].priority # mgr_call.config.priority
    /\ Cardinality(DOMAIN configs[mgr_call.type]) >= 2

\* C29: switch_engine changes no manager state: after the call, successful
\* or failing, the registered configs and get_default_engine of the type are
\* as before; with an unregistered target it raises ValueError and creates
\* no engine instance.
C29_SwitchChangesNothing ==
    (mgr_call # NoCall /\ mgr_call.op = "switch_engine") =>
        /\ configs = mgr_call.before
        /\ get_default_engine(configs, mgr_call.type)
               = get_default_engine(mgr_call.before, mgr_call.type)
        /\ mgr_call.name \notin DOMAIN mgr_call.before[mgr_call.type] =>
               /\ mgr_call.error = "ValueError"
               /\ mgr_call.created = 0
        /\ mgr_call.created = 1 => mgr_call.error = "none"

\* a switch to funasr, which the ASR factory can build, after funasr was
\* unregistered from the manager
C29_Witness ==
    /\ mgr_call # NoCall
    /\ mgr_call.op = "switch_engine"
    /\ mgr_call.type = "ASR"
    /\ mgr_call.name = "funasr"
    /\ "funasr" \notin DOMAIN configs["ASR"]
    /\ mgr_call.error = "ValueError"

\* ----------------------------------------------------- properties, VoiceIME
\* C24: in smart mode, when the command line gives --scenario X, the
\* scenario of the resulting selection is X.
C24_ScenarioForced ==
    (state # "none" /\ ime_args.smart_mode /\ ime_args.scenario # "None") =>
        /\ selection_result # NoResult
        /\ selection_result.scenario = scenario_map[ime_args.scenario]

\* C30: between presses the state is 'idle' or 'recording', and 'recording'
\* exactly when Recorder.is_recording; a press in 'idle' starts recording
\* only if Recorder.start succeeds, else the state stays 'idle'; a press in
\* 'recording' stops the recorder and ends in 'idle', also when the recorded
\* data is empty or recognition raises.
C30_HotkeyLoop ==
    (state # "none" /\ ime_pc = "waiting") =>
        /\ state \in {"idle", "recording"}
        /\ state = "recording" <=> is_recording
        /\ (last_press # NoPress /\ last_press.from = "idle") =>
               (state = "recording" <=> last_press.start = "ok")
        /\ (last_press # NoPress /\ last_press.from = "recording") =>
               /\ state = "idle"
               /\ ~is_recording
               /\ stream = "None"
               /\ last_press.recognition \in {"skipped", "ok", "raise"}

\* the press that stopped a recording has returned after recognition raised
C30_Witness ==
    /\ state = "idle"
    /\ ime_pc = "waiting"
    /\ last_press # NoPress
    /\ last_press.from = "recording"
    /\ last_press.recognition = "raise"
    /\ audio_data = MaxChunks

\* ------------------------------------------------------- properties, kwargs
\* C27: create_with_fallback passes each known engine type only its own keys
\* and drops the others: funasr gets only model, device (and
\* enable_diarization as primary), nano-2512 and nano-mlt only model and
\* device, moss only api_key; and the model passed to a funasr fallback is a
\* FunASR model name, never the primary engine's model name.
C27_ParameterTranslation ==
    \A i \in 1..Len(passed) :
        LET call == passed[i]
            keys == DOMAIN call.kwargs
        IN  /\ call.engine = "funasr" =>
                   keys \subseteq {"model", "device"}
                       \cup (IF call.role = "primary" THEN {"enable_diarization"} ELSE {})
            /\ call.engine \in {"nano-2512", "nano-mlt"} => keys \subseteq {"model", "device"}
            /\ call.engine = "moss" => keys \subseteq {"api_key"}
            /\ (call.engine = "funasr" /\ call.role = "fallback") =>
                   call.kwargs["model"] \in FunASRModels

\* ------------------------------------------------- properties, concurrency
\* C21: selection is side-effect free and safe to interleave: a select call
\* leaves the capability, weight and fallback tables and the selector's
\* candidate list unchanged, so in any interleaving of two selections on the
\* same selector each returns the SelectionResult it returns when run alone.
C21_InterleavingSafe ==
    /\ available_engines = CapabilityKeys
    /\ \A c \in Callers :
           (requests[c] # NoRequest /\ requests[c].pc = "done") =>
               requests[c].result
                   = select(available_engines, requests[c].context, requests[c].priority)

\* one call has finished while the other, with another context, is in the
\* middle of its scoring loop
C21_Witness ==
    /\ requests[1] # NoRequest
    /\ requests[2] # NoRequest
    /\ requests[1].pc = "done"
    /\ requests[2].pc = "scoring"
    /\ requests[2].i = 3
    /\ requests[1].context # requests[2].context
    /\ requests[1].result.scenario = "MEETING"
    /\ requests[2].scenario = "REALTIME"

====
